---------------------------- MODULE Spec2Model ----------------------------
(***************************************************************************)
(* The auth service of the task manager (services/auth-service/server.js): *)
(* register, login, verify, profile and health behind three fixed-window   *)
(* rate limiters, a users table with a unique username, bcrypt password    *)
(* hashes and 24h JWTs.                                                    *)
(*                                                                         *)
(* Strings the code inspects character by character (usernames, passwords) *)
(* are sequences of one-character strings.  Time is Date.now() in          *)
(* milliseconds.  One Node process serves all requests: everything a       *)
(* request does between two I/O waits is one action.                       *)
(***************************************************************************)
EXTENDS Integers, Sequences, FiniteSets, TLC

VARIABLES
    secret,     \* process.env.JWT_SECRET: <<>> when undefined, else <<value>>
    now,        \* Date.now(), ms
    ticks,      \* how many times the clock has been advanced (bounds the run)
    arrivals,   \* how many requests have arrived (bounds the run)
    limits,     \* limits[limiter][key]: the MemoryStore client of a key
    users,      \* the users table, rows in insertion order
    issued,     \* tokens the service has signed (held by callers)
    req,        \* req[slot]: the request a connection slot is serving
    form,       \* the state of the Register component (Register.jsx)
    pool,       \* the mysql2 connection pool: queries running and waiting
    nodeEnv,    \* process.env.NODE_ENV: <<>> when undefined, else <<value>>
    mig         \* a run of migrate-to-new-schema.sql and the schema it works on

\* the state of the auth service
server == <<secret, nodeEnv, now, ticks, arrivals, limits, users, issued, req>>

vars == <<secret, nodeEnv, now, ticks, arrivals, limits, users, issued, req, form, pool,
          mig>>

---------------------------------------------------------------------------
(* Bounds of the exploration *)

MaxTicks == 2       \* clock advances per run
MaxOver  == 1       \* requests explored beyond a limiter's max
MaxIssued == 2      \* tokens signed per run
MaxRequests == 4    \* requests per run
MaxWaiting == 3     \* queries explored waiting for a connection

---------------------------------------------------------------------------
(* Characters *)

Lower == {"a","b","c","d","e","f","g","h","i","j","k","l","m",
          "n","o","p","q","r","s","t","u","v","w","x","y","z"}
Upper == {"A","B","C","D","E","F","G","H","I","J","K","L","M",
          "N","O","P","Q","R","S","T","U","V","W","X","Y","Z"}
Digit == {"0","1","2","3","4","5","6","7","8","9"}
WhiteSpace == {" ", "\t", "\n"}
LineTerminators == {"\n"}

Rep(c, n) == [i \in 1..n |-> c]

RECURSIVE TrimLeft(_)
TrimLeft(s) ==
    IF Len(s) > 0 /\ s[1] \in WhiteSpace THEN TrimLeft(Tail(s)) ELSE s

RECURSIVE TrimRight(_)
TrimRight(s) ==
    IF Len(s) > 0 /\ s[Len(s)] \in WhiteSpace
    THEN TrimRight(SubSeq(s, 1, Len(s) - 1))
    ELSE s

\* express-validator .trim(): the sanitized value replaces req.body.username
Trim(s) == TrimRight(TrimLeft(s))

---------------------------------------------------------------------------
(* Validation chains, server.js:107-118 and 161-162 *)

UsernameMin == 3
UsernameMax == 30
PasswordMin == 12

MsgUsernameLength == "Username must be between 3 and 30 characters"
MsgUsernameChars  == "Username can only contain letters, numbers, underscores, and hyphens"
MsgPasswordLength == "Password must be at least 12 characters"
MsgPasswordChars  == "Password must contain uppercase, lowercase, number, and special character"

\* /^[a-zA-Z0-9_-]+$/
UsernameClass == Lower \cup Upper \cup Digit \cup {"_", "-"}
MatchesUsernameRegex(s) ==
    /\ Len(s) >= 1
    /\ \A i \in 1..Len(s) : s[i] \in UsernameClass

\* the symbols of the server's password regex
ServerSymbols == {"@", "$", "!", "%", "*", "?", "&"}
PasswordClass == Lower \cup Upper \cup Digit \cup ServerSymbols

\* (?=.*[C]) tried at position 1: "." does not match a line terminator
Lookahead(s, C) ==
    \E i \in 1..Len(s) :
        /\ s[i] \in C
        /\ \A j \in 1..(i - 1) : s[j] \notin LineTerminators

\* /^(?=.*[a-z])(?=.*[A-Z])(?=.*\d)(?=.*[@$!%*?&])[A-Za-z\d@$!%*?&]/
\* the pattern ends after one character of the class: it is not anchored
\* at the end
MatchesPasswordRegex(s) ==
    /\ Lookahead(s, Lower)
    /\ Lookahead(s, Upper)
    /\ Lookahead(s, Digit)
    /\ Lookahead(s, ServerSymbols)
    /\ Len(s) >= 1
    /\ s[1] \in PasswordClass

\* (faulty variant) the chain without its .matches(...) validator
validateUsernameLengthOnly(u) ==
    LET t == Trim(u) IN
    IF Len(t) >= UsernameMin /\ Len(t) <= UsernameMax
    THEN <<>> ELSE <<MsgUsernameLength>>

\* validateUsername: .trim().isLength({min: 3, max: 30}).matches(...)
\* every failing validator of the chain adds its message, in chain order
validateUsername(u) ==
    LET t == Trim(u) IN
    (IF Len(t) >= UsernameMin /\ Len(t) <= UsernameMax
     THEN <<>> ELSE <<MsgUsernameLength>>)
    \o (IF MatchesUsernameRegex(t) THEN <<>> ELSE <<MsgUsernameChars>>)

\* validatePassword: .isLength({min: 12}).matches(...)
validatePassword(p) ==
    (IF Len(p) >= PasswordMin THEN <<>> ELSE <<MsgPasswordLength>>)
    \o (IF MatchesPasswordRegex(p) THEN <<>> ELSE <<MsgPasswordChars>>)

\* validationResult(req).array() of the register route
RegisterErrors(u, p) == validateUsername(u) \o validatePassword(p)

\* body('username').trim().notEmpty(), body('password').notEmpty()
LoginInputOk(u, p) == Len(Trim(u)) > 0 /\ Len(p) > 0


---------------------------------------------------------------------------
(* The register form's password check, Register.jsx:13-39 *)

\* /[@$!%*?&#]/
ClientSymbols == {"@", "$", "!", "%", "*", "?", "&", "#"}

\* /[a-z]/.test(password) and its kin: some character is of class C
Test(password, C) == \E i \in 1..Len(password) : password[i] \in C

strengthLabels == <<"Very Weak", "Weak", "Fair", "Good", "Strong">>

\* strengthLabels[score] || 'Very Weak', the array being indexed from 0
Label(score) ==
    IF score + 1 \in 1..Len(strengthLabels) THEN strengthLabels[score + 1]
    ELSE "Very Weak"

\* the five checks in the order of the code, with what each pushes to
\* feedback when it fails
ClientChecks(password) ==
    << <<Len(password) >= 12,          "at least 12 characters">>,
       <<Test(password, Lower),         "lowercase letter">>,
       <<Test(password, Upper),         "uppercase letter">>,
       <<Test(password, Digit),         "number">>,
       <<Test(password, ClientSymbols), "special character (@$!%*?&#)">> >>

\* feedback.join(', '): a text is kept as the sequence of its pieces
RECURSIVE Join(_, _)
Join(items, sep) ==
    IF Len(items) = 0 THEN <<>>
    ELSE IF Len(items) = 1 THEN <<items[1]>>
    ELSE <<items[1], sep>> \o Join(Tail(items), sep)

\* feedback.length > 0 ? `Missing: ${feedback.join(', ')}` : 'Strong password!'
FeedbackText(feedback) ==
    IF Len(feedback) > 0 THEN <<"Missing: ">> \o Join(feedback, ", ")
    ELSE <<"Strong password!">>

\* (faulty variant) a check that is content with four of the five criteria
ClientValidatePasswordLenient(password) ==
    LET checks   == ClientChecks(password)
        score    == Cardinality({i \in 1..Len(checks) : checks[i][1]})
        failed   == SelectSeq(checks, LAMBDA c : ~c[1])
        feedback == [i \in 1..Len(failed) |-> failed[i][2]]
    IN [score    |-> score,
        label    |-> Label(score),
        feedback |-> FeedbackText(feedback),
        isValid  |-> score >= 4]

\* validatePassword of Register.jsx
ClientValidatePassword(password) ==
    LET checks   == ClientChecks(password)
        score    == Cardinality({i \in 1..Len(checks) : checks[i][1]})
        failed   == SelectSeq(checks, LAMBDA c : ~c[1])
        feedback == [i \in 1..Len(failed) |-> failed[i][2]]
    IN [score    |-> score,
        label    |-> Label(score),
        feedback |-> FeedbackText(feedback),
        isValid  |-> score >= 5]

\* useState: formData, error, loading, success, passwordStrength as the
\* component is mounted (Register.jsx:6-10); posting holds the body of the
\* axios.post that is awaited, if any
InitialForm ==
    [formData |-> [username |-> <<>>, password |-> <<>>, confirmPassword |-> <<>>],
     error |-> "", loading |-> FALSE, success |-> FALSE,
     passwordStrength |-> [score |-> 0, feedback |-> <<>>],
     posting |-> <<>>]

---------------------------------------------------------------------------
(* migrate-to-new-schema.sql.  A schema is the set of columns of each      *)
(* table and the set of index names; the rows are left out.  Each block of *)
(* the script (SET @col_exists, SET @query, PREPARE, EXECUTE, DEALLOCATE)  *)
(* is one statement: what it tests in INFORMATION_SCHEMA, the columns its  *)
(* text names, and what it changes.                                        *)

\* columns the script takes for granted, and those it tests for or names
TasksCore     == {"id", "user_id"}
TasksOptional == {"title", "description", "priority", "status", "task", "completed",
                  "due_date", "created_at", "updated_at"}
UsersCore     == {"id", "username", "password"}
UsersOptional == {"email", "created_at", "updated_at"}

\* the columns each index of the script is built on
IndexColumns ==
    [idx_user_tasks    |-> [table |-> "tasks", columns |-> {"user_id", "created_at"}],
     idx_user_status   |-> [table |-> "tasks", columns |-> {"user_id", "status"}],
     idx_user_priority |-> [table |-> "tasks", columns |-> {"user_id", "priority"}],
     idx_due_date      |-> [table |-> "tasks", columns |-> {"due_date"}],
     idx_username      |-> [table |-> "users", columns |-> {"username"}]]

\* ALTER TABLE t ADD COLUMN c ... AFTER a, run when c is missing
AddColumn(t, c, a, line) ==
    [op |-> "add", table |-> t, name |-> c, after |-> <<a>>, names |-> {a}, line |-> line]

\* UPDATE t ..., run when column g exists (g = <<>>: run always)
Update(t, g, columns, line) ==
    [op |-> "update", table |-> t, name |-> g, after |-> <<>>, names |-> columns, line |-> line]

\* ALTER TABLE t DROP COLUMN c, run when c exists
DropColumn(t, c, line) ==
    [op |-> "drop", table |-> t, name |-> <<c>>, after |-> <<>>, names |-> {c}, line |-> line]

\* CREATE INDEX i ON t(columns), run when i is missing
CreateIndex(i, line) ==
    [op |-> "index", table |-> IndexColumns[i].table, name |-> i, after |-> <<>>,
     names |-> IndexColumns[i].columns, line |-> line]

\* the statements of the script in order, each with the line of its text
Script ==
    << AddColumn("tasks", "title", "user_id", 12),
       AddColumn("tasks", "description", "title", 26),
       AddColumn("tasks", "priority", "description", 40),
       AddColumn("tasks", "status", "priority", 54),
       Update("tasks", <<"task">>, {"title", "task"}, 68),
       Update("tasks", <<"completed">>, {"status", "completed"}, 82),
       Update("tasks", <<>>, {"description"}, 90),
       AddColumn("tasks", "created_at", "due_date", 99),
       AddColumn("tasks", "updated_at", "created_at", 113),
       DropColumn("tasks", "task", 127),
       DropColumn("tasks", "completed", 141),
       CreateIndex("idx_user_tasks", 155),
       CreateIndex("idx_user_status", 168),
       CreateIndex("idx_user_priority", 181),
       CreateIndex("idx_due_date", 194),
       AddColumn("users", "created_at", "email", 208),
       AddColumn("users", "email", "password", 222),
       AddColumn("users", "updated_at", "created_at", 236),
       CreateIndex("idx_username", 250) >>

\* the IF(@col_exists ..., ..., 'SELECT ...') of a block: does the statement
\* run, or the SELECT that reports it is skipped
Runs(st, schema) ==
    CASE st.op = "add"    -> st.name \notin schema.columns[st.table]
      [] st.op = "update" -> IF st.name = <<>> THEN TRUE
                             ELSE st.name[1] \in schema.columns[st.table]
      [] st.op = "drop"   -> st.name[1] \in schema.columns[st.table]
      [] st.op = "index"  -> st.name \notin schema.indexes

\* the server refuses a statement that names a column the table lacks
\* (unknown column, key column does not exist)
Refused(st, schema) == ~(st.names \subseteq schema.columns[st.table])

\* the schema after a statement that ran
Effect(st, schema) ==
    CASE st.op = "add"    ->
            [schema EXCEPT !.columns[st.table] = @ \cup {st.name}]
      [] st.op = "update" -> schema
      [] st.op = "drop"   ->
            [schema EXCEPT !.columns[st.table] = @ \ {st.name[1]}]
      [] st.op = "index"  ->
            [schema EXCEPT !.indexes = @ \cup {st.name}]

\* a schema with these optional columns and these indexes
Schema(t, u, i) ==
    [columns |-> [tasks |-> TasksCore \cup t, users |-> UsersCore \cup u],
     indexes |-> i]

WellFormed(schema) ==
    \A i \in schema.indexes :
        IndexColumns[i].columns \subseteq schema.columns[IndexColumns[i].table]

\* no run of the script yet
NotStarted ==
    [state |-> "idle", pc |-> 0,
     schema |-> Schema({}, {}, {}),
     errors |-> {}]

---------------------------------------------------------------------------
(* bcryptjs, server.js:140 and 180.  The salt that bcrypt.hash draws is    *)
(* left out: bcrypt.compare recovers it from the hash, so its outcome      *)
(* depends on the plaintext alone.                                         *)

BcryptCost == 10
BcryptHash(p) == [alg |-> "bcrypt", cost |-> BcryptCost, of |-> p]
BcryptCompare(p, h) == h = BcryptHash(p)

---------------------------------------------------------------------------
(* jsonwebtoken, server.js:193-197, 221 and 242 *)

NoSecret == <<>>
\* (faulty variant) a check for undefined only, which lets the empty string through
SecretUndefined(sec) == sec = NoSecret

\* !process.env.JWT_SECRET: undefined or the empty string
SecretMissing(sec) == sec = NoSecret \/ sec[1] = ""

\* expiresIn: '24h', in the seconds jsonwebtoken counts in
ExpiresInSec == 24 * 60 * 60
NowSec(t) == t \div 1000

NoToken   == [form |-> "none"]        \* no Authorization header / no 2nd word
Malformed == [form |-> "malformed"]   \* not three base64url segments

\* jwt.sign({userId, username}, secret, {expiresIn: '24h'}) at time t
JwtSign(uid, uname, sec, t) ==
    [form |-> "jwt", userId |-> uid, username |-> uname,
     iat |-> NowSec(t), exp |-> NowSec(t) + ExpiresInSec, sig |-> sec[1]]

\* (faulty variant) verification that does not look at exp
JwtVerifyIgnoringExp(tok, sec, t) ==
    IF tok.form # "jwt" THEN "JsonWebTokenError: jwt malformed"
    ELSE IF tok.sig # sec[1] THEN "JsonWebTokenError: invalid signature"
    ELSE "ok"

\* jwt.verify(token, secret) at time t: malformed, then signature, then exp
JwtVerify(tok, sec, t) ==
    IF tok.form # "jwt" THEN "JsonWebTokenError: jwt malformed"
    ELSE IF tok.sig # sec[1] THEN "JsonWebTokenError: invalid signature"
    ELSE IF NowSec(t) >= tok.exp THEN "TokenExpiredError: jwt expired"
    ELSE "ok"

---------------------------------------------------------------------------
(* express-rate-limit with its default MemoryStore, server.js:36-61:       *)
(* one fixed window per (limiter, key), opened by the key's first hit.     *)

LoginWindowMs    == 15 * 60 * 1000
LoginMax         == 5
RegisterWindowMs == 60 * 60 * 1000
RegisterMax      == 3
GeneralWindowMs  == 15 * 60 * 1000
GeneralMax       == 100

Limiters == {"general", "login", "register"}
WindowMs(l) == CASE l = "general"  -> GeneralWindowMs
                 [] l = "login"    -> LoginWindowMs
                 [] l = "register" -> RegisterWindowMs
Max(l) == CASE l = "general"  -> GeneralMax
            [] l = "login"    -> LoginMax
            [] l = "register" -> RegisterMax

MsgLoginLimited    == "Too many login attempts, please try again later"
MsgRegisterLimited == "Too many accounts created, please try again later"
MsgGeneralLimited  == "Too many requests, please try again later."
LimitMessage(l) == CASE l = "general"  -> MsgGeneralLimited
                     [] l = "login"    -> MsgLoginLimited
                     [] l = "register" -> MsgRegisterLimited

\* a key the store has not seen.  totalHits and resetTime are the store's;
\* admitted (requests that went on past the limiter in the client's current
\* window) and denied (requests it has answered 429) are history.
NoClient == [totalHits |-> 0, resetTime |-> 0, admitted |-> 0, denied |-> 0]

\* (faulty variant) a store whose windows never end
WindowNeverOver(c, t) == FALSE

\* the window is over once resetTime has been reached
WindowOver(c, t) == c.resetTime <= t

\* (faulty variant) an off-by-one comparison with max
WithinMaxPlusOne(l, totalHits) == totalHits <= Max(l) + 1

\* the limiter lets a request through when its hit is within max
WithinMax(l, totalHits) == totalHits <= Max(l)

\* (faulty variant) a store that counts a request twice
IncrementTwice(l, c, t) ==
    LET live == IF WindowOver(c, t)
                THEN [c EXCEPT !.totalHits = 0, !.resetTime = t + WindowMs(l),
                               !.admitted = 0]
                ELSE c
    IN [live EXCEPT !.totalHits = @ + 2]

\* (faulty variant) a store that stops counting once max is reached
IncrementUpToMax(l, c, t) ==
    LET live == IF WindowOver(c, t)
                THEN [c EXCEPT !.totalHits = 0, !.resetTime = t + WindowMs(l),
                               !.admitted = 0]
                ELSE c
    IN [live EXCEPT !.totalHits = IF @ < Max(l) THEN @ + 1 ELSE @]

\* store.increment(key) at time t: an elapsed window is replaced by one that
\* starts now, then the hit is counted
Increment(l, c, t) ==
    LET live == IF WindowOver(c, t)
                THEN [c EXCEPT !.totalHits = 0, !.resetTime = t + WindowMs(l),
                               !.admitted = 0]
                ELSE c
    IN [live EXCEPT !.totalHits = @ + 1]

\* the middleware's decision on the client that increment returned
Admitted(l, c) == WithinMax(l, c.totalHits)

\* history: what became of the request r that was counted as c
Tally(c, r) ==
    IF r.status = 429 THEN [c EXCEPT !.denied = @ + 1]
    ELSE [c EXCEPT !.admitted = @ + 1]

\* the exploration stops MaxOver hits beyond a limiter's max
HitsCapped(l, c, t) == WindowOver(c, t) \/ c.totalHits < Max(l) + MaxOver


---------------------------------------------------------------------------
(* The users table (README.md: id PRI, username UNI, password) reached     *)
(* through pool.execute.  Ids are assigned in insertion order.             *)

UsernameTaken(rows, uname) == \E i \in 1..Len(rows) : rows[i].username = uname

\* (faulty variant) a users table without the unique key on username
InsertNeverRefused(rows, uname) == FALSE

\* (faulty variant) an INSERT that replaces the table's rows by the new one
InsertUserReplacing(rows, uname, hash) ==
    <<[id |-> Len(rows) + 1, username |-> uname, password |-> hash]>>

\* INSERT INTO users (username, password) VALUES (?, ?): the unique key on
\* username makes the statement fail with ER_DUP_ENTRY
InsertRefused(rows, uname) == UsernameTaken(rows, uname)
InsertUser(rows, uname, hash) ==
    Append(rows, [id |-> Len(rows) + 1, username |-> uname, password |-> hash])

\* SELECT * FROM users WHERE username = ?
SelectByUsername(rows, uname) == SelectSeq(rows, LAMBDA r : r.username = uname)

\* (faulty variant) SELECT * FROM users WHERE id = ?
SelectByIdStar(rows, id) == SelectSeq(rows, LAMBDA r : r.id = id)

\* SELECT id, username, created_at FROM users WHERE id = ?
SelectById(rows, id) ==
    LET hit == SelectSeq(rows, LAMBDA r : r.id = id)
    IN [i \in 1..Len(hit) |-> [id |-> hit[i].id, username |-> hit[i].username]]

---------------------------------------------------------------------------
(* mysql.createPool, server.js:96-104, with mysql2's pool: a query takes a *)
(* free or new connection while fewer than connectionLimit are in use,     *)
(* and otherwise waits in the pool's queue unless the queue is full; a     *)
(* queueLimit of 0 means no limit.                                         *)

waitForConnections == TRUE
connectionLimit == 10
queueLimit == 0

\* the statements the handlers execute
Statements == {"INSERT INTO users", "SELECT by username", "SELECT by id"}

\* running[st]: connections executing statement st; queue: waiting queries
EmptyPool == [running |-> [st \in Statements |-> 0], queue |-> <<>>]

RECURSIVE SumOver(_, _)
SumOver(f, S) ==
    IF S = {} THEN 0
    ELSE LET x == CHOOSE y \in S : TRUE IN f[x] + SumOver(f, S \ {x})

\* connections in use
InUse(pl) == SumOver(pl.running, Statements)

\* the queue takes one more query
QueueHasRoom(pl) == queueLimit = 0 \/ Len(pl.queue) < queueLimit

\* pool.execute(st): the pool after the query has got a connection, been
\* queued, or been refused
Execute(pl, st) ==
    IF InUse(pl) < connectionLimit
    THEN [pl EXCEPT !.running[st] = @ + 1]
    ELSE IF waitForConnections /\ QueueHasRoom(pl)
    THEN [pl EXCEPT !.queue = Append(@, st)]
    ELSE pl

\* a running statement st completes: its connection goes to the first
\* waiting query, or back to the pool
Complete(pl, st) ==
    IF pl.queue # <<>>
    THEN [pl EXCEPT !.running[st] = @ - 1,
                    !.running[pl.queue[1]] = @ + 1,
                    !.queue = Tail(@)]
    ELSE [pl EXCEPT !.running[st] = @ - 1]

---------------------------------------------------------------------------
(* Requests and responses *)

Keys  == {"ip1", "ip2"}
Slots == {1, 2}

\* "unparsable" is a request whose JSON body express.json() cannot parse
Kinds == {"register", "login", "verify", "profile", "health", "unparsable"}

\* sent is the username as the caller sent it; username is req.body.username,
\* which the validation chain's sanitizer rewrites
Idle == [pc |-> "idle", key |-> "", kind |-> "", sent |-> <<>>, username |-> <<>>,
         password |-> <<>>, token |-> NoToken, hashed |-> <<>>, found |-> <<>>,
         status |-> 0, body |-> [none |-> TRUE], at |-> 0]

NewRequest(k, kind, u, p, t) ==
    [Idle EXCEPT !.pc = "route", !.key = k, !.kind = kind, !.sent = u,
                 !.username = u, !.password = p, !.token = t]

\* res.status(st).json(b) or .send(b): the request is answered at time t
Respond(r, st, b, t) == [r EXCEPT !.pc = "done", !.status = st, !.body = b, !.at = t]

ErrorBody(msg) == [error |-> msg]
\* the limiter's handler sends the message as text
TextBody(msg)  == [text |-> msg]

Limited(r, l, t) == Respond(r, 429, TextBody(LimitMessage(l)), t)

---------------------------------------------------------------------------
(* Inputs *)

Bob        == <<"b","o","b">>
PaddedBob  == <<" ","b","o","b"," ">>
TwoChars   == <<"a","b">>
BadChars   == <<"b","o","@">>
Long30     == Rep("a", 30)
Long31     == Rep("a", 31)
PaddedLong == Rep("a", 30) \o <<" ">>

GoodPass       == <<"M","y","S","e","c","u","r","e","1","2","3","!","P","a","s","s">>
TwelvePass     == <<"M","y","S","e","c","u","r","e","1","2","3","!">>
ElevenPass     == <<"M","y","S","e","c","u","r","e","1","2","!">>
ShortPass      == <<"s","h","o","r","t">>
NoLowerPass    == <<"M","Y","S","E","C","U","R","E","1","2","3","!","P","A","S","S">>
NoUpperPass    == <<"m","y","s","e","c","u","r","e","1","2","3","!","p","a","s","s">>
NoDigitPass    == <<"M","y","S","e","c","u","r","e","!","!","!","!","P","a","s","s">>
NoSymbolPass   == <<"M","y","S","e","c","u","r","e","1","2","3","4","P","a","s","s">>
HashOnlyPass   == <<"M","y","S","e","c","u","r","e","1","2","3","#","P","a","s","s">>
UnderscorePass == <<"_","M","y","S","e","c","u","r","e","1","2","3","!","P","a","s">>

RegisterUsernames == {Bob, PaddedBob, TwoChars, BadChars, Long30, Long31, PaddedLong}
RegisterPasswords == {GoodPass, TwelvePass, ElevenPass, ShortPass, NoLowerPass,
                      NoUpperPass, NoDigitPass, NoSymbolPass, HashOnlyPass,
                      UnderscorePass}
LoginUsernames == {Bob, PaddedBob, Long30, <<>>}
LoginPasswords == {GoodPass, TwelvePass, <<>>}

\* a token signed by someone who does not hold the server's secret
Forged == [form |-> "jwt", userId |-> 1, username |-> Bob, iat |-> 0,
           exp |-> 1000 * ExpiresInSec, sig |-> "attacker-secret"]
PresentedTokens == issued \cup {NoToken, Malformed, Forged}

Secrets == {NoSecret, <<"">>, <<"server-secret">>}


---------------------------------------------------------------------------
(* The service *)

\* NODE_ENV is left unset, or names the environment
NodeEnvs == {<<>>, <<"production">>, <<"development">>}

\* the process starts: the secret in every configuration, nothing stored,
\* nothing in service
InitState ==
    /\ secret \in Secrets
    /\ now = 0
    /\ ticks = 0
    /\ arrivals = 0
    /\ limits = [l \in Limiters |-> [k \in Keys |-> NoClient]]
    /\ users = <<>>
    /\ issued = {}
    /\ req = [s \in Slots |-> Idle]
    /\ form = InitialForm
    /\ pool = EmptyPool
    /\ mig = NotStarted

\* the service as deployed
Init == InitState /\ nodeEnv = <<"production">>

\* the limiter l counts the request of slot s; its client afterwards
Hit(l, s) == Increment(l, limits[l][req[s].key], now)

\* A request of key k reaches the process: helmet, then generalLimiter
\* (server.js:61); the body is parsed before the route runs.
Arrive(s, k, kind, u, p, t) ==
    /\ req[s].pc = "idle"
    /\ HitsCapped("general", limits["general"][k], now)
    /\ kind \in {"login", "register"} => HitsCapped(kind, limits[kind][k], now)
    /\ LET c == Increment("general", limits["general"][k], now)
           r == NewRequest(k, kind, u, p, t)
           a == IF Admitted("general", c) THEN r ELSE Limited(r, "general", now)
       IN /\ limits' = [limits EXCEPT !["general"][k] = Tally(c, a)]
          /\ req' = [req EXCEPT ![s] = a]
    /\ arrivals' = arrivals + 1
    /\ UNCHANGED <<mig, nodeEnv, pool, form, secret, now, ticks, users, issued>>

\* GET /health, server.js:121-123
HealthRoute(s) ==
    /\ req[s].pc = "route" /\ req[s].kind = "health"
    /\ req' = [req EXCEPT ![s] =
                  Respond(@, 200, [status |-> "healthy", service |-> "auth-service"], now)]
    /\ UNCHANGED <<mig, nodeEnv, pool, form, secret, now, ticks, arrivals, limits, users, issued>>

\* (faulty variant) a register route whose validators run before its limiter
RegisterRouteValidatingFirst(s) ==
    /\ req[s].pc = "route" /\ req[s].kind = "register"
    /\ LET c    == Hit("register", s)
           r    == req[s]
           errs == RegisterErrors(r.username, r.password)
           a    == IF errs # <<>> THEN Respond(r, 400, ErrorBody(errs[1]), now)
                   ELSE IF ~Admitted("register", c) THEN Limited(r, "register", now)
                   ELSE [r EXCEPT !.pc = "hash", !.username = Trim(r.username)]
       IN /\ limits' = [limits EXCEPT !["register"][r.key] = Tally(c, a)]
          /\ req' = [req EXCEPT ![s] = a]
    /\ UNCHANGED <<mig, nodeEnv, pool, form, secret, now, ticks, arrivals, users, issued>>

\* POST /api/auth/register up to the first wait, server.js:126-140:
\* registerLimiter, the two validation chains, then bcrypt.hash is started
RegisterRoute(s) ==
    /\ req[s].pc = "route" /\ req[s].kind = "register"
    /\ LET c    == Hit("register", s)
           r    == req[s]
           errs == RegisterErrors(r.username, r.password)
           a    == IF ~Admitted("register", c) THEN Limited(r, "register", now)
                   ELSE IF errs # <<>> THEN Respond(r, 400, ErrorBody(errs[1]), now)
                   ELSE [r EXCEPT !.pc = "hash", !.username = Trim(r.username)]
       IN /\ limits' = [limits EXCEPT !["register"][r.key] = Tally(c, a)]
          /\ req' = [req EXCEPT ![s] = a]
    /\ UNCHANGED <<mig, nodeEnv, pool, form, secret, now, ticks, arrivals, users, issued>>

\* bcrypt.hash resolves and the INSERT is sent, server.js:140-142
RegisterHash(s) ==
    /\ req[s].pc = "hash"
    /\ req' = [req EXCEPT ![s] =
                  [@ EXCEPT !.pc = "insert", !.hashed = <<BcryptHash(req[s].password)>>]]
    /\ UNCHANGED <<mig, nodeEnv, pool, form, secret, now, ticks, arrivals, limits, users, issued>>

\* the database runs the INSERT and the handler answers, server.js:142-154
RegisterInsert(s) ==
    /\ req[s].pc = "insert"
    /\ IF InsertRefused(users, req[s].username)
       THEN /\ req' = [req EXCEPT ![s] =
                          Respond(@, 409, ErrorBody("Username already exists"), now)]
            /\ users' = users
       ELSE /\ users' = InsertUser(users, req[s].username, req[s].hashed[1])
            /\ req' = [req EXCEPT ![s] =
                          Respond(@, 201, [message |-> "User registered successfully",
                                           userId |-> Len(users) + 1], now)]
    /\ UNCHANGED <<mig, nodeEnv, pool, form, secret, now, ticks, arrivals, limits, issued>>

\* (faulty variant) a login route whose validators run before its limiter
LoginRouteValidatingFirst(s) ==
    /\ req[s].pc = "route" /\ req[s].kind = "login"
    /\ LET r == req[s]
           c == IF LoginInputOk(r.username, r.password) THEN Hit("login", s)
                ELSE limits["login"][r.key]
           a == IF ~LoginInputOk(r.username, r.password)
                THEN Respond(r, 400, ErrorBody("Username and password required"), now)
                ELSE IF ~Admitted("login", c) THEN Limited(r, "login", now)
                ELSE [r EXCEPT !.pc = "select", !.username = Trim(r.username)]
       IN /\ limits' = [limits EXCEPT !["login"][r.key] =
                            IF LoginInputOk(r.username, r.password)
                            THEN Tally(c, a) ELSE c]
          /\ req' = [req EXCEPT ![s] = a]
    /\ UNCHANGED <<mig, nodeEnv, pool, form, secret, now, ticks, arrivals, users, issued>>

\* POST /api/auth/login up to the first wait, server.js:159-176:
\* loginLimiter, the two notEmpty checks, then the SELECT is sent
LoginRoute(s) ==
    /\ req[s].pc = "route" /\ req[s].kind = "login"
    /\ LET c == Hit("login", s)
           r == req[s]
           a == IF ~Admitted("login", c) THEN Limited(r, "login", now)
                ELSE IF ~LoginInputOk(r.username, r.password)
                THEN Respond(r, 400, ErrorBody("Username and password required"), now)
                ELSE [r EXCEPT !.pc = "select", !.username = Trim(r.username)]
       IN /\ limits' = [limits EXCEPT !["login"][r.key] = Tally(c, a)]
          /\ req' = [req EXCEPT ![s] = a]
    /\ UNCHANGED <<mig, nodeEnv, pool, form, secret, now, ticks, arrivals, users, issued>>

\* the SELECT returns, server.js:173-185: without a row the handler answers
\* at once, with a row it starts bcrypt.compare
LoginSelect(s) ==
    /\ req[s].pc = "select" /\ req[s].kind = "login"
    /\ LET found == SelectByUsername(users, req[s].username)
       IN req' = [req EXCEPT ![s] =
                IF found = <<>>
                THEN Respond(@, 401, ErrorBody("Invalid credentials"), now)
                ELSE [@ EXCEPT !.pc = "compare", !.found = found]]
    /\ UNCHANGED <<mig, nodeEnv, pool, form, secret, now, ticks, arrivals, limits, users, issued>>

\* (faulty variant) a login handler that says which factor was wrong
LoginAnswerLeaky(r, sec, t) ==
    LET user == r.found[1] IN
    IF ~BcryptCompare(r.password, user.password)
    THEN Respond(r, 401, ErrorBody("Invalid password"), t)
    ELSE IF SecretMissing(sec)
    THEN Respond(r, 500, ErrorBody("Server configuration error"), t)
    ELSE Respond(r, 200, [token |-> JwtSign(user.id, user.username, sec, t),
                          userId |-> user.id, username |-> user.username], t)

\* (faulty variant) a login handler that looks at the secret first
LoginAnswerSecretFirst(r, sec, t) ==
    LET user == r.found[1] IN
    IF SecretMissing(sec)
    THEN Respond(r, 500, ErrorBody("Server configuration error"), t)
    ELSE IF ~BcryptCompare(r.password, user.password)
    THEN Respond(r, 401, ErrorBody("Invalid credentials"), t)
    ELSE Respond(r, 200, [token |-> JwtSign(user.id, user.username, sec, t),
                          userId |-> user.id, username |-> user.username], t)

\* what the login handler answers once bcrypt.compare has resolved,
\* server.js:180-199
LoginAnswer(r, sec, t) ==
    LET user == r.found[1] IN
    IF ~BcryptCompare(r.password, user.password)
    THEN Respond(r, 401, ErrorBody("Invalid credentials"), t)
    ELSE IF SecretMissing(sec)
    THEN Respond(r, 500, ErrorBody("Server configuration error"), t)
    ELSE Respond(r, 200, [token |-> JwtSign(user.id, user.username, sec, t),
                          userId |-> user.id, username |-> user.username], t)

LoginCompare(s) ==
    /\ req[s].pc = "compare"
    /\ req' = [req EXCEPT ![s] = LoginAnswer(@, secret, now)]
    /\ issued' = IF req'[s].status = 200 /\ Cardinality(issued) < MaxIssued
                 THEN issued \cup {req'[s].body.token}
                 ELSE issued
    /\ UNCHANGED <<mig, nodeEnv, pool, form, secret, now, ticks, arrivals, limits, users>>

\* (faulty variant) a verify handler that passes jsonwebtoken's error on
VerifyAnswerTelling(r, sec, t) ==
    IF r.token = NoToken
    THEN Respond(r, 401, ErrorBody("No token provided"), t)
    ELSE IF SecretMissing(sec)
    THEN Respond(r, 500, ErrorBody("Server configuration error"), t)
    ELSE IF JwtVerify(r.token, sec, t) # "ok"
    THEN Respond(r, 401, ErrorBody(JwtVerify(r.token, sec, t)), t)
    ELSE Respond(r, 200, [valid |-> TRUE, userId |-> r.token.userId,
                          username |-> r.token.username], t)

\* (faulty variant) a verify handler that takes a user's newest token only
VerifyAnswerNewestOnly(r, sec, t) ==
    IF r.token = NoToken
    THEN Respond(r, 401, ErrorBody("No token provided"), t)
    ELSE IF SecretMissing(sec)
    THEN Respond(r, 500, ErrorBody("Server configuration error"), t)
    ELSE IF \/ JwtVerify(r.token, sec, t) # "ok"
            \/ \E other \in issued : /\ other.userId = r.token.userId
                                     /\ other.iat > r.token.iat
    THEN Respond(r, 401, ErrorBody("Invalid token"), t)
    ELSE Respond(r, 200, [valid |-> TRUE, userId |-> r.token.userId,
                          username |-> r.token.username], t)

\* POST /api/auth/verify, server.js:208-226
VerifyAnswer(r, sec, t) ==
    IF r.token = NoToken
    THEN Respond(r, 401, ErrorBody("No token provided"), t)
    ELSE IF SecretMissing(sec)
    THEN Respond(r, 500, ErrorBody("Server configuration error"), t)
    ELSE IF JwtVerify(r.token, sec, t) # "ok"
    THEN Respond(r, 401, ErrorBody("Invalid token"), t)
    ELSE Respond(r, 200, [valid |-> TRUE, userId |-> r.token.userId,
                          username |-> r.token.username], t)

VerifyRoute(s) ==
    /\ req[s].pc = "route" /\ req[s].kind = "verify"
    /\ req' = [req EXCEPT ![s] = VerifyAnswer(@, secret, now)]
    /\ UNCHANGED <<mig, nodeEnv, pool, form, secret, now, ticks, arrivals, limits, users, issued>>

\* GET /api/auth/profile up to the SELECT, server.js:229-247
ProfileRoute(s) ==
    /\ req[s].pc = "route" /\ req[s].kind = "profile"
    /\ req' = [req EXCEPT ![s] =
            IF @.token = NoToken
            THEN Respond(@, 401, ErrorBody("No token provided"), now)
            ELSE IF SecretMissing(secret)
            THEN Respond(@, 500, ErrorBody("Server configuration error"), now)
            ELSE IF JwtVerify(@.token, secret, now) # "ok"
            THEN Respond(@, 500, ErrorBody("Failed to fetch profile"), now)
            ELSE [@ EXCEPT !.pc = "select"]]
    /\ UNCHANGED <<mig, nodeEnv, pool, form, secret, now, ticks, arrivals, limits, users, issued>>

\* the profile SELECT returns, server.js:244-253
ProfileSelect(s) ==
    /\ req[s].pc = "select" /\ req[s].kind = "profile"
    /\ LET found == SelectById(users, req[s].token.userId)
       IN req' = [req EXCEPT ![s] =
                IF Len(found) = 0
                THEN Respond(@, 404, ErrorBody("User not found"), now)
                ELSE Respond(@, 200, found[1], now)]
    /\ UNCHANGED <<mig, nodeEnv, pool, form, secret, now, ticks, arrivals, limits, users, issued>>

\* (faulty variant) an error middleware that always sends the details
ErrorAnswerDetailed(r, env, message, t) ==
    Respond(r, 500, [error |-> "Internal server error", details |-> message], t)

\* the error-handling middleware, server.js:261-270, for an error with the
\* given message under NODE_ENV env
ErrorAnswer(r, env, message, t) ==
    IF env = <<"production">>
    THEN Respond(r, 500, [error |-> "Internal server error"], t)
    ELSE Respond(r, 500, [error |-> "Internal server error", details |-> message], t)

\* express.json() (server.js:84) fails on the body and passes its error on
JsonParseFails(s) ==
    /\ req[s].pc = "route" /\ req[s].kind = "unparsable"
    /\ req' = [req EXCEPT ![s] =
                  ErrorAnswer(@, nodeEnv, "Unexpected end of JSON input", now)]
    /\ UNCHANGED <<mig, nodeEnv, pool, form, secret, now, ticks, arrivals, limits, users, issued>>

\* what a handler's catch block sends when its query is rejected with an
\* error other than ER_DUP_ENTRY, server.js:153-154, 200-203, 254-257
CatchAnswer(r, t) ==
    Respond(r, 500,
            ErrorBody(CASE r.kind = "register" -> "Registration failed"
                        [] r.kind = "login"    -> "Login failed"
                        [] r.kind = "profile"  -> "Failed to fetch profile"), t)

\* pool.execute rejects: the store is down or the query fails
QueryFails(s) ==
    /\ \/ req[s].kind = "register" /\ req[s].pc = "insert"
       \/ req[s].kind \in {"login", "profile"} /\ req[s].pc = "select"
    /\ req' = [req EXCEPT ![s] = CatchAnswer(@, now)]
    /\ UNCHANGED <<mig, nodeEnv, pool, form, secret, now, ticks, arrivals, limits, users, issued>>

\* the caller has read the answer; the slot serves the next request
Close(s) ==
    /\ req[s].pc = "done"
    /\ req' = [req EXCEPT ![s] = Idle]
    /\ UNCHANGED <<mig, nodeEnv, pool, form, secret, now, ticks, arrivals, limits, users, issued>>

\* time passes, in steps much longer than a request takes: between requests
Tick(d, n) ==
    /\ ticks < n
    /\ \A s \in Slots : req[s].pc = "idle"
    /\ now' = now + d
    /\ ticks' = ticks + 1
    /\ UNCHANGED <<mig, nodeEnv, pool, form, secret, arrivals, limits, users, issued, req>>

\* The service, one request at a time: every route, the secret in every
\* configuration, a day passing.
Next ==
    \/ arrivals < MaxRequests /\ Arrive(1, "ip1", "register", Bob, GoodPass, NoToken)
    \/ \E i \in ({Bob, Long30} \X {GoodPass, TwelvePass}) \cup {<<Bob, <<>> >>} :
          arrivals < MaxRequests /\ Arrive(1, "ip1", "login", i[1], i[2], NoToken)
    \/ \E kind \in {"verify", "profile"}, t \in PresentedTokens :
          arrivals < MaxRequests /\ Arrive(1, "ip1", kind, <<>>, <<>>, t)
    \/ arrivals < MaxRequests /\ Arrive(1, "ip1", "health", <<>>, <<>>, NoToken)
    \/ HealthRoute(1)
    \/ RegisterRoute(1)
    \/ RegisterHash(1)
    \/ RegisterInsert(1)
    \/ LoginRoute(1)
    \/ LoginSelect(1)
    \/ LoginCompare(1)
    \/ VerifyRoute(1)
    \/ ProfileRoute(1)
    \/ ProfileSelect(1)
    \/ Close(1)
    \/ \E d \in {1000 * (ExpiresInSec - 1), 2000} : Tick(d, MaxTicks)

Spec == Init /\ [][Next]_vars


\* Accounts: registration with every username and password of the input
\* sets, and logins against the accounts made, one request at a time.
NextAccounts ==
    \/ \E u \in RegisterUsernames, p \in RegisterPasswords :
          arrivals < MaxRequests /\ Arrive(1, "ip1", "register", u, p, NoToken)
    \/ \E u \in LoginUsernames, p \in LoginPasswords :
          arrivals < MaxRequests /\ Arrive(1, "ip1", "login", u, p, NoToken)
    \/ RegisterRoute(1)
    \/ RegisterHash(1)
    \/ RegisterInsert(1)
    \/ LoginRoute(1)
    \/ LoginSelect(1)
    \/ LoginCompare(1)
    \/ Close(1)

SpecAccounts == Init /\ [][NextAccounts]_vars


\* The login limiter over time: logins of two keys, one request at a time,
\* up to the last millisecond of a window and past it.
NextLimit ==
    \/ \E k \in Keys, p \in {GoodPass, <<>>} :
          Arrive(1, k, "login", Bob, p, NoToken)
    \/ LoginRoute(1)
    \/ LoginSelect(1)
    \/ Close(1)
    \/ \E d \in {LoginWindowMs - 1, 1} : Tick(d, MaxTicks)

SpecLimit == Init /\ [][NextLimit]_vars

\* Concurrency: two connections of one or two keys register and log in at
\* the same time.
NextConc ==
    \/ \E s \in Slots, k \in Keys, u \in {Bob, PaddedBob} :
          /\ arrivals < RegisterMax + MaxOver + 1
          /\ Arrive(s, k, "register", u, GoodPass, NoToken)
    \/ \E s \in Slots :
          /\ arrivals < LoginMax + MaxOver + 1
          /\ Arrive(s, "ip1", "login", Bob, GoodPass, NoToken)
    \/ \E s \in Slots :
          \/ RegisterRoute(s)
          \/ RegisterHash(s)
          \/ RegisterInsert(s)
          \/ LoginRoute(s)
          \/ LoginSelect(s)
          \/ LoginCompare(s)
          \/ Close(s)

SpecConc == Init /\ [][NextConc]_vars

\* Register, log in, verify, fetch the profile: one caller, two usernames,
\* passwords that meet the five criteria.
NextRoundTrip ==
    \/ \E u \in {Bob, Long30}, p \in {GoodPass, UnderscorePass} :
          arrivals < MaxRequests /\ Arrive(1, "ip1", "register", u, p, NoToken)
    \/ \E u \in {Bob, Long30}, p \in {GoodPass, UnderscorePass} :
          arrivals < MaxRequests /\ Arrive(1, "ip1", "login", u, p, NoToken)
    \/ \E kind \in {"verify", "profile"}, t \in issued :
          arrivals < MaxRequests /\ Arrive(1, "ip1", kind, <<>>, <<>>, t)
    \/ RegisterRoute(1)
    \/ RegisterHash(1)
    \/ RegisterInsert(1)
    \/ LoginRoute(1)
    \/ LoginSelect(1)
    \/ LoginCompare(1)
    \/ VerifyRoute(1)
    \/ ProfileRoute(1)
    \/ ProfileSelect(1)
    \/ Close(1)

SpecRoundTrip == Init /\ [][NextRoundTrip]_vars

\* The register limiter over time: registrations of two keys with a valid
\* and an invalid body, up to the last millisecond of the hour and past it.
NextRegisterLimit ==
    \/ \E k \in Keys, i \in {<<Bob, GoodPass>>, <<TwoChars, ShortPass>>} :
          /\ arrivals < RegisterMax + MaxOver + MaxTicks
          /\ Arrive(1, k, "register", i[1], i[2], NoToken)
    \/ RegisterRoute(1)
    \/ RegisterHash(1)
    \/ RegisterInsert(1)
    \/ Close(1)
    \/ \E d \in {RegisterWindowMs - 1, 1} : Tick(d, MaxTicks)

\* the secret plays no part in registration: one configuration is enough
InitSecretSet == Init /\ secret = <<"server-secret">>

SpecRegisterLimit == InitSecretSet /\ [][NextRegisterLimit]_vars

\* The general limiter: one key calls /health and /api/auth/verify as often
\* as the limiter's window is explored, and logs in now and then.
NextGeneral ==
    \/ Arrive(1, "ip1", "health", <<>>, <<>>, NoToken)
    \/ \E t \in {NoToken, Malformed} :
          Arrive(1, "ip1", "verify", <<>>, <<>>, t)
    \/ Arrive(1, "ip1", "login", Bob, GoodPass, NoToken)
    \/ HealthRoute(1)
    \/ VerifyRoute(1)
    \/ LoginRoute(1)
    \/ LoginSelect(1)
    \/ Close(1)

SpecGeneral == InitSecretSet /\ [][NextGeneral]_vars

\* Failures: the store rejects queries and bodies fail to parse, under
\* every NODE_ENV.
InitAnyEnv == InitState /\ secret = <<"server-secret">> /\ nodeEnv \in NodeEnvs

NextFailures ==
    \/ arrivals < MaxRequests /\ Arrive(1, "ip1", "register", Bob, GoodPass, NoToken)
    \/ arrivals < MaxRequests /\ Arrive(1, "ip1", "login", Bob, GoodPass, NoToken)
    \/ \E t \in issued :
          arrivals < MaxRequests /\ Arrive(1, "ip1", "profile", <<>>, <<>>, t)
    \/ arrivals < MaxRequests /\ Arrive(1, "ip1", "unparsable", <<>>, <<>>, NoToken)
    \/ RegisterRoute(1)
    \/ RegisterHash(1)
    \/ RegisterInsert(1)
    \/ LoginRoute(1)
    \/ LoginSelect(1)
    \/ LoginCompare(1)
    \/ ProfileRoute(1)
    \/ ProfileSelect(1)
    \/ JsonParseFails(1)
    \/ QueryFails(1)
    \/ Close(1)

SpecFailures == InitAnyEnv /\ [][NextFailures]_vars

\* One key registers once and then logs in again and again: with the right
\* password, a wrong one, or none.
NextLoginCount ==
    \/ users = <<>> /\ Arrive(1, "ip1", "register", Bob, GoodPass, NoToken)
    \/ \E p \in {GoodPass, TwelvePass, <<>>} :
          users # <<>> /\ Arrive(1, "ip1", "login", Bob, p, NoToken)
    \/ RegisterRoute(1)
    \/ RegisterHash(1)
    \/ RegisterInsert(1)
    \/ LoginRoute(1)
    \/ LoginSelect(1)
    \/ LoginCompare(1)
    \/ Close(1)

SpecLoginCount == InitSecretSet /\ [][NextLoginCount]_vars

---------------------------------------------------------------------------
(* The Register component, Register.jsx:5-89 and its inputs at 99-136 *)

\* what is typed into the fields
TwoKinds   == <<"S","h">>
ThreeKinds == <<"S","h","1">>
FormUsernames == {Bob, PaddedBob, TwoChars, BadChars, Long31}
FormPasswords == {<<>>, ShortPass, TwoKinds, ThreeKinds, NoDigitPass, ElevenPass,
                  GoodPass, HashOnlyPass}
FormConfirms  == {ShortPass, GoodPass, HashOnlyPass}

\* the error texts a rejected POST /api/auth/register can carry; <<>> when
\* the response has no data.error
PostErrors == {<<>>, <<MsgPasswordChars>>, <<"Username already exists">>}

\* disabled={loading || success} on the inputs and the button
Disabled == form.loading \/ form.success

\* a value that is undefined (missing) counts as false
Truthy(rec, field) == field \in DOMAIN rec /\ rec[field]

\* onChange of the username input, Register.jsx:103
UsernameChange(value) ==
    /\ ~Disabled
    /\ form' = [form EXCEPT !.formData.username = value]
    /\ UNCHANGED <<server, pool, mig>>

\* Register.jsx:41-45
handlePasswordChange(password) ==
    /\ ~Disabled
    /\ form' = [form EXCEPT !.formData.password = password,
                            !.passwordStrength = ClientValidatePassword(password)]
    /\ UNCHANGED <<server, pool, mig>>

\* onChange of the confirm input, Register.jsx:131
ConfirmPasswordChange(value) ==
    /\ ~Disabled
    /\ form' = [form EXCEPT !.formData.confirmPassword = value]
    /\ UNCHANGED <<server, pool, mig>>

\* (faulty variant) a submit handler that does not look at passwordStrength
handleSubmitUnchecked ==
    /\ ~Disabled
    /\ LET f     == form.formData
           fail(msg) == [form EXCEPT !.error = msg, !.loading = FALSE]
       IN form' =
            IF Len(f.username) < 3 \/ Len(f.username) > 30
            THEN fail(MsgUsernameLength)
            ELSE IF ~MatchesUsernameRegex(f.username)
            THEN fail(MsgUsernameChars)
            ELSE IF f.password # f.confirmPassword
            THEN fail("Passwords do not match")
            ELSE [form EXCEPT !.error = "", !.loading = TRUE,
                              !.posting = <<[username |-> f.username,
                                             password |-> f.password]>>]
    /\ UNCHANGED <<server, pool, mig>>

\* handleSubmit up to its await, Register.jsx:47-80
handleSubmit ==
    /\ ~Disabled
    /\ LET f     == form.formData
           fail(msg) == [form EXCEPT !.error = msg, !.loading = FALSE]
       IN form' =
            IF Len(f.username) < 3 \/ Len(f.username) > 30
            THEN fail(MsgUsernameLength)
            ELSE IF ~MatchesUsernameRegex(f.username)
            THEN fail(MsgUsernameChars)
            ELSE IF f.password # f.confirmPassword
            THEN fail("Passwords do not match")
            ELSE IF ~Truthy(form.passwordStrength, "isValid")
            THEN fail("Password must be at least 12 characters and contain uppercase, lowercase, number, and special character")
            ELSE [form EXCEPT !.error = "", !.loading = TRUE,
                              !.posting = <<[username |-> f.username,
                                             password |-> f.password]>>]
    /\ UNCHANGED <<server, pool, mig>>

\* axios.post resolves, Register.jsx:81-82 and 86-88
PostResolves ==
    /\ form.posting # <<>>
    /\ form' = [form EXCEPT !.success = TRUE, !.loading = FALSE, !.posting = <<>>]
    /\ UNCHANGED <<server, pool, mig>>

\* axios.post rejects, Register.jsx:83-88
PostRejects(data) ==
    /\ form.posting # <<>>
    /\ form' = [form EXCEPT
                  !.error = IF data # <<>> THEN data[1] ELSE "Registration failed",
                  !.loading = FALSE, !.posting = <<>>]
    /\ UNCHANGED <<server, pool, mig>>

NextForm ==
    \/ \E u \in FormUsernames : UsernameChange(u)
    \/ \E p \in FormPasswords : handlePasswordChange(p)
    \/ \E p \in FormConfirms : ConfirmPasswordChange(p)
    \/ handleSubmit
    \/ PostResolves
    \/ \E data \in PostErrors : PostRejects(data)

SpecForm == InitSecretSet /\ [][NextForm]_vars

---------------------------------------------------------------------------
(* A run of migrate-to-new-schema.sql against a database.                  *)

\* USE task_management, migrate-to-new-schema.sql:3: the script meets the
\* schema the database has: every optional column present or absent, and
\* any of the script's indexes whose columns exist
MigrationStart ==
    /\ mig.state = "idle"
    /\ \E t \in SUBSET TasksOptional, u \in SUBSET UsersOptional,
          i \in SUBSET DOMAIN IndexColumns :
          /\ WellFormed(Schema(t, u, i))
          /\ mig' = [state |-> "running", pc |-> 1, schema |-> Schema(t, u, i),
                     errors |-> {}]
    /\ UNCHANGED <<server, form, pool>>

\* the next block of the script, when the server accepts its statement or
\* the block skips it
MigrationStep ==
    /\ mig.state = "running" /\ mig.pc <= Len(Script)
    /\ LET st == Script[mig.pc] IN
       /\ ~(Runs(st, mig.schema) /\ Refused(st, mig.schema))
       /\ mig' = [mig EXCEPT !.pc = @ + 1,
                             !.schema = IF Runs(st, mig.schema)
                                        THEN Effect(st, mig.schema) ELSE @]
    /\ UNCHANGED <<server, form, pool>>

\* the next block of the script, when the server refuses its statement: the
\* client stops at the error, or goes on with the next statement when it
\* was told to (mysql --force)
MigrationError(force) ==
    /\ mig.state = "running" /\ mig.pc <= Len(Script)
    /\ LET st == Script[mig.pc] IN
       /\ Runs(st, mig.schema) /\ Refused(st, mig.schema)
       /\ mig' = [mig EXCEPT !.errors = @ \cup {st.line},
                             !.state = IF force THEN "running" ELSE "aborted",
                             !.pc = IF force THEN @ + 1 ELSE @]
    /\ UNCHANGED <<server, form, pool>>

\* SELECT 'Migration completed successfully!', migrate-to-new-schema.sql:257
MigrationCompleted ==
    /\ mig.state = "running" /\ mig.pc = Len(Script) + 1
    /\ mig' = [mig EXCEPT !.state = "completed"]
    /\ UNCHANGED <<server, form, pool>>

NextMigration ==
    \/ MigrationStart
    \/ MigrationStep
    \/ \E force \in BOOLEAN : MigrationError(force)
    \/ MigrationCompleted

SpecMigration == InitSecretSet /\ [][NextMigration]_vars

---------------------------------------------------------------------------
(* The connection pool under load: handlers call pool.execute as requests  *)
(* come in, and queries complete in any order.                             *)

PoolExecute(st) ==
    /\ Len(pool.queue) < MaxWaiting
    /\ pool' = Execute(pool, st)
    /\ UNCHANGED <<server, form, mig>>

QueryCompletes(st) ==
    /\ pool.running[st] > 0
    /\ pool' = Complete(pool, st)
    /\ UNCHANGED <<server, form, mig>>

NextPool ==
    \/ \E st \in Statements : PoolExecute(st)
    \/ \E st \in Statements : QueryCompletes(st)

SpecPool == InitSecretSet /\ [][NextPool]_vars

---------------------------------------------------------------------------
(* Properties *)

Answered(r, kind) == r.pc = "done" /\ r.kind = kind
\* the request got past the rate limiters
Let(r) == r.status # 429

\* the login's lookup finds no row / finds a row whose hash the password
\* does not match
UnknownUser(r) == SelectByUsername(users, Trim(r.sent)) = <<>>
WrongPassword(r) ==
    \E i \in 1..Len(users) :
        /\ users[i].username = Trim(r.sent)
        /\ ~BcryptCompare(r.password, users[i].password)

\* C1: every admitted, well-formed login whose username has no user record,
\* and every one whose username exists but whose password is wrong, gets the
\* same answer: 401 {error: 'Invalid credentials'}, whatever the store holds.
C1_LoginFailuresUniform ==
    \A s \in Slots :
        (/\ Answered(req[s], "login") /\ Let(req[s])
         /\ LoginInputOk(req[s].sent, req[s].password)
         /\ (UnknownUser(req[s]) \/ WrongPassword(req[s])))
        => /\ req[s].status = 401
           /\ req[s].body = ErrorBody("Invalid credentials")

\* a login for an existing account with a wrong password has been answered 401
C1_Witness ==
    /\ Answered(req[1], "login") /\ WrongPassword(req[1])
    /\ req[1].status = 401
    /\ Len(users) >= 1

Unique(rows) ==
    \A i, j \in 1..Len(rows) : rows[i].username = rows[j].username => i = j

\* C4: an INSERT for a username that already has a record is answered 409
\* {error: 'Username already exists'} and leaves the table as it was; the
\* table never holds two records with one username.
C4_DuplicateRefused ==
    [][/\ Unique(users')
       /\ \A s \in Slots :
            (/\ req[s].pc = "insert" /\ req'[s].pc = "done"
             /\ UsernameTaken(users, req[s].username))
            => /\ req'[s].status = 409
               /\ req'[s].body = ErrorBody("Username already exists")
               /\ users' = users]_vars

\* a second registration of a username was answered 409 and the table holds
\* one record for it
C4_Witness ==
    /\ Answered(req[1], "register") /\ req[1].status = 409
    /\ Cardinality({i \in 1..Len(users) : users[i].username = req[1].username}) = 1

\* the five criteria, with the symbol set of the server's pattern
HasOneOf(p, C) == \E i \in 1..Len(p) : p[i] \in C
FiveCriteria(p) ==
    /\ Len(p) >= 12
    /\ HasOneOf(p, Lower)
    /\ HasOneOf(p, Upper)
    /\ HasOneOf(p, Digit)
    /\ HasOneOf(p, ServerSymbols)

\* C9: a register request (admitted, username valid) is answered 400 exactly
\* when its password misses one of the five criteria: length >= 12, a
\* lowercase letter, an uppercase letter, a digit, a symbol of the allow-set.
C9_PasswordCheckIsFiveCriteria ==
    \A s \in Slots :
        (/\ Answered(req[s], "register") /\ Let(req[s])
         /\ validateUsername(req[s].sent) = <<>>)
        => (req[s].status = 400 <=> ~FiveCriteria(req[s].password))

\* a username outside 3..30 characters or with a character that is no
\* letter, digit, '_' or '-'
BadShape(u) ==
    \/ Len(u) < 3
    \/ Len(u) > 30
    \/ \E i \in 1..Len(u) : u[i] \notin UsernameClass

\* C10 as claimed: every admitted register request whose username, as
\* submitted, is badly shaped is answered 400.
C10_SubmittedBadShapeRejected ==
    \A s \in Slots :
        (Answered(req[s], "register") /\ Let(req[s]) /\ BadShape(req[s].sent))
        => req[s].status = 400

\* C10 amended: a register request whose username is badly shaped after its
\* leading and trailing whitespace is trimmed never gets past validation: it
\* is answered 400 (429 when rate limited) and no step of it changes the
\* users table.
C10_TrimmedBadShapeRejected ==
    [][\A s \in Slots :
         (/\ req[s].pc \notin {"idle", "done"} /\ req[s].kind = "register"
          /\ BadShape(Trim(req[s].sent))
          /\ req'[s] # req[s])
         => /\ users' = users
            /\ req'[s].pc = "done"
            /\ req'[s].status \in {400, 429}
            /\ Let(req'[s]) => req'[s].status = 400]_vars

\* a register request with a badly shaped username has been answered 400
C10_Witness ==
    /\ Answered(req[1], "register") /\ req[1].status = 400
    /\ BadShape(Trim(req[1].sent))
    /\ validatePassword(req[1].password) = <<>>


DayMs == 24 * 60 * 60 * 1000

\* C6: a token a successful login returned verifies (200, valid: true, the
\* token's identity) at every time before its issued-at + 24h, and is
\* refused at every time after issued-at + 24h.
C6_TokenValidFor24h ==
    \A s \in Slots :
        (Answered(req[s], "verify") /\ Let(req[s]) /\ req[s].token \in issued)
        => LET tok == req[s].token
               expiry == 1000 * tok.iat + DayMs
           IN /\ req[s].at < expiry =>
                    /\ req[s].status = 200
                    /\ req[s].body = [valid |-> TRUE, userId |-> tok.userId,
                                      username |-> tok.username]
              /\ req[s].at > expiry =>
                    /\ req[s].status = 401
                    /\ req[s].body = ErrorBody("Invalid token")

\* a token was verified more than 24h after it was issued, and refused
C6_Witness ==
    /\ Answered(req[1], "verify") /\ req[1].token \in issued
    /\ req[1].at > 1000 * req[1].token.iat + DayMs
    /\ req[1].status = 401

\* the signing secret is unset, or set to the empty string
UnsetOrEmpty == secret = NoSecret \/ secret = <<"">>

\* the three ways a presented token is bad, at time t
IsMalformed(tok) == tok = Malformed
WronglySigned(tok) ==
    tok.form = "jwt" /\ (secret = NoSecret \/ tok.sig # secret[1])
IsExpired(tok, t) == tok.form = "jwt" /\ t >= 1000 * tok.exp
BadToken(tok, t) == IsMalformed(tok) \/ WronglySigned(tok) \/ IsExpired(tok, t)

\* C7 as claimed: every verify request with an expired, malformed or wrongly
\* signed token is answered 401 {error: 'Invalid token'}.
C7_BadTokenAlways401 ==
    \A s \in Slots :
        (Answered(req[s], "verify") /\ Let(req[s])
         /\ BadToken(req[s].token, req[s].at))
        => /\ req[s].status = 401
           /\ req[s].body = ErrorBody("Invalid token")

\* C7 amended: a verify request with an expired, malformed or wrongly signed
\* token is never answered valid: true; with the secret set the answer is 401
\* {error: 'Invalid token'} in all three cases, and with the secret unset or
\* empty it is 500 {error: 'Server configuration error'} in all three.
C7_BadTokenUniform ==
    \A s \in Slots :
        (Answered(req[s], "verify") /\ Let(req[s])
         /\ BadToken(req[s].token, req[s].at))
        => IF UnsetOrEmpty
           THEN /\ req[s].status = 500
                /\ req[s].body = ErrorBody("Server configuration error")
           ELSE /\ req[s].status = 401
                /\ req[s].body = ErrorBody("Invalid token")

\* with the secret set, a token the service signed was presented after its
\* expiry and answered 401
C7_Witness ==
    /\ ~UnsetOrEmpty
    /\ Answered(req[1], "verify") /\ req[1].token \in issued
    /\ IsExpired(req[1].token, req[1].at)
    /\ req[1].status = 401

\* the login's username exists and the password matches its hash
RightCredentials(r) ==
    \E i \in 1..Len(users) :
        /\ users[i].username = Trim(r.sent)
        /\ BcryptCompare(r.password, users[i].password)

\* C8: while the signing secret is unset or empty no token has been issued,
\* no login, verify or profile request is answered 200, every login with
\* right credentials and every verify or profile request that presents a
\* token is answered 500 {error: 'Server configuration error'}.
C8_NoSecretNoTokens ==
    UnsetOrEmpty =>
        /\ issued = {}
        /\ \A s \in Slots :
             LET r == req[s] IN
             (r.pc = "done" /\ Let(r)) =>
                /\ r.kind \in {"login", "verify", "profile"} => r.status # 200
                /\ (r.kind = "login" /\ RightCredentials(r)) =>
                      /\ r.status = 500
                      /\ r.body = ErrorBody("Server configuration error")
                /\ (r.kind \in {"verify", "profile"} /\ r.token # NoToken) =>
                      /\ r.status = 500
                      /\ r.body = ErrorBody("Server configuration error")

\* with the secret empty, a login with the right password was answered 500
C8_Witness ==
    /\ secret = <<"">>
    /\ Answered(req[1], "login") /\ RightCredentials(req[1])
    /\ req[1].status = 500

\* the login limiter's record of the key of request r
LoginClient(lim, r) == lim["login"][r.key]

\* C2: a login attempt that reaches the login limiter inside its key's
\* running 15-minute window is counted in that window; it goes on when fewer
\* than 5 attempts were counted before it and is answered 429 with the login
\* limiter's message when 5 or more were.  An attempt that arrives when the
\* key has no window, or its window has elapsed, is admitted and opens a
\* window of 15 minutes with this attempt as its first.
C2_SixthLoginDenied ==
    [][\A s \in Slots :
         (req[s].pc = "route" /\ req[s].kind = "login" /\ req'[s] # req[s]) =>
            LET c  == LoginClient(limits, req[s])
                c2 == LoginClient(limits', req[s])
            IN IF now < c.resetTime
               THEN /\ c2.totalHits = c.totalHits + 1
                    /\ c2.resetTime = c.resetTime
                    /\ c.totalHits < 5 => req'[s].status # 429
                    /\ c.totalHits >= 5 =>
                          /\ req'[s].pc = "done"
                          /\ req'[s].status = 429
                          /\ req'[s].body = TextBody(MsgLoginLimited)
               ELSE /\ req'[s].status # 429
                    /\ c2.totalHits = 1
                    /\ c2.resetTime = now + 15 * 60 * 1000]_vars

\* a key whose login was denied in an earlier window has had the first
\* login of a new window answered by the handler
C2_Witness ==
    /\ Answered(req[1], "login") /\ req[1].status = 401
    /\ LoginClient(limits, req[1]).denied >= 1
    /\ LoginClient(limits, req[1]).totalHits = 1
    /\ LoginClient(limits, req[1]).resetTime > 15 * 60 * 1000

\* C3: under every interleaving of the requests' steps, the requests a
\* limiter has let through for one key in one window never number more than
\* its maximum (100 general, 5 login, 3 register).
C3_AdmittedWithinMax ==
    \A k \in Keys :
        /\ limits["general"][k].admitted <= 100
        /\ limits["login"][k].admitted <= 5
        /\ limits["register"][k].admitted <= 3

\* two registrations of one key were in service together with one slot
\* left: one took it, the other was answered 429
C3_Witness ==
    /\ req[1].kind = "register" /\ req[2].kind = "register"
    /\ req[1].key = req[2].key
    /\ req[1].pc = "done" /\ req[1].status = 429
    /\ req[2].pc \in {"hash", "insert", "done"} /\ req[2].status # 429
    /\ limits["register"][req[1].key].admitted = 3
    /\ limits["register"][req[1].key].totalHits = 4

\* the only two requests of a run are answered registrations, both valid,
\* of one username
TwoRegistrations ==
    /\ arrivals = 2
    /\ \A s \in Slots :
          /\ Answered(req[s], "register") /\ Let(req[s])
          /\ RegisterErrors(req[s].sent, req[s].password) = <<>>
    /\ Trim(req[1].sent) = Trim(req[2].sent)

\* C5: when two valid registrations of one free username are served
\* together, then however their hash and insert steps interleave one is
\* answered 201 and the other 409 {error: 'Username already exists'}, the
\* table holds one record for the username, and the register limiter has
\* counted one hit per request for the requests' keys.
C5_OneWinsOneDuplicate ==
    TwoRegistrations =>
        /\ {req[1].status, req[2].status} = {201, 409}
        /\ \A s \in Slots :
              req[s].status = 409 =>
                  req[s].body = ErrorBody("Username already exists")
        /\ Cardinality({i \in 1..Len(users) :
                            users[i].username = Trim(req[1].sent)}) = 1
        /\ \A k \in Keys :
              limits["register"][k].totalHits =
                  Cardinality({s \in Slots : req[s].key = k})

\* one registration was answered 409 and the other, the same username
\* spelled with surrounding blanks, 201; both came from one key
C5_Witness ==
    /\ TwoRegistrations
    /\ req[1].status = 409 /\ req[2].status = 201
    /\ req[1].sent = Bob /\ req[2].sent = PaddedBob
    /\ req[1].key = req[2].key

\* the id of the record of username u
IdOf(u) == (CHOOSE i \in 1..Len(users) : users[i].username = u)

\* C11: with the secret set, every admitted registration of a well-shaped
\* username with a password that meets the five criteria is answered 201
\* with the new record's id (409 when the username was taken); every
\* admitted login with a registered username and its password is answered
\* 200 with a token, that id and the username; and verifying that token
\* before its expiry answers valid: true with the same id and username.
C11_RegisterLoginVerify ==
    ~UnsetOrEmpty =>
    \A s \in Slots :
        LET r == req[s] IN
        /\ (/\ Answered(r, "register") /\ Let(r)
            /\ ~BadShape(r.sent) /\ FiveCriteria(r.password))
           => \/ r.status = 409
              \/ /\ r.status = 201
                 /\ r.body.userId = users[IdOf(r.sent)].id
        /\ (Answered(r, "login") /\ Let(r) /\ RightCredentials(r))
           => /\ r.status = 200
              /\ r.body.token.form = "jwt"
              /\ r.body.userId = users[IdOf(r.sent)].id
              /\ r.body.username = r.sent
        /\ (/\ Answered(r, "verify") /\ Let(r)
            /\ r.token \in issued /\ ~IsExpired(r.token, r.at))
           => /\ r.status = 200
              /\ r.body = [valid |-> TRUE,
                           userId |-> users[IdOf(r.token.username)].id,
                           username |-> r.token.username]

\* the register limiter's record of the key of request r
RegisterClient(lim, r) == lim["register"][r.key]

\* C12: a register request that reaches the register limiter inside its
\* key's running one-hour window goes on when fewer than 3 were counted
\* before it; from the 4th on it is answered 429 with the register limiter's
\* message whatever its body, it is not validated (no 400) and never gets to
\* the hash or the INSERT, and the users table stays as it was.  No key has
\* more than 3 registrations admitted in one window.
C12_FourthRegisterDenied ==
    [][\A s \in Slots :
         (req[s].pc = "route" /\ req[s].kind = "register" /\ req'[s] # req[s]) =>
            LET c  == RegisterClient(limits, req[s])
                c2 == RegisterClient(limits', req[s])
            IN /\ c2.admitted <= 3
               /\ IF now < c.resetTime
                  THEN /\ c2.resetTime = c.resetTime
                       /\ c.totalHits < 3 => req'[s].status # 429
                       /\ c.totalHits >= 3 =>
                             /\ req'[s].pc = "done"
                             /\ req'[s].status = 429
                             /\ req'[s].body = TextBody(MsgRegisterLimited)
                             /\ req'[s].hashed = <<>>
                             /\ users' = users
                  ELSE /\ req'[s].status # 429
                       /\ c2.resetTime = now + 60 * 60 * 1000]_vars

\* a key's 4th registration inside the hour, with a username and a password
\* that validation would refuse, was answered 429
C12_Witness ==
    /\ Answered(req[1], "register") /\ req[1].status = 429
    /\ req[1].body = TextBody(MsgRegisterLimited)
    /\ RegisterErrors(req[1].sent, req[1].password) # <<>>
    /\ RegisterClient(limits, req[1]).totalHits = 4
    /\ RegisterClient(limits, req[1]).admitted = 3
    /\ now = 60 * 60 * 1000 - 1

\* C13: every GET /health is answered 200 {status: 'healthy'}, however many
\* requests its key has made before.
C13_HealthAlwaysHealthy ==
    \A s \in Slots :
        Answered(req[s], "health") =>
            /\ req[s].status = 200
            /\ req[s].body.status = "healthy"

\* C14: a verify request, from its arrival to its answer, leaves the users
\* table and every rate-limit window as they were, and is not answered 429.
C14_VerifyLeavesLimitsAlone ==
    [][\A s \in Slots :
         (req'[s] # req[s] /\ req'[s].kind = "verify") =>
            /\ users' = users
            /\ limits' = limits
            /\ req'[s].status # 429]_vars

\* the maxima as configured
ConfiguredMax(l) == CASE l = "general"  -> 100
                      [] l = "login"    -> 5
                      [] l = "register" -> 3

\* C15 as claimed: the count stored for a key's window is never above the
\* limiter's maximum.
C15_CountWithinMax ==
    \A l \in Limiters, k \in Keys : limits[l][k].totalHits <= ConfiguredMax(l)

\* C15 amended: every request that reaches a limiter inside its key's
\* running window adds one to the stored count, the denied ones too, so the
\* count goes above the maximum; a denied request leaves the window's reset
\* time as it was, and the requests let through in a window never number
\* more than the maximum.
C15_DeniedCountedWindowKept ==
    [][\A l \in Limiters, k \in Keys :
         limits'[l][k] # limits[l][k] =>
            LET c  == limits[l][k]
                c2 == limits'[l][k]
            IN /\ c2.admitted <= ConfiguredMax(l)
               /\ now < c.resetTime =>
                     /\ c2.totalHits = c.totalHits + 1
                     /\ c2.resetTime = c.resetTime
               /\ c2.denied = c.denied + 1 =>
                     /\ c2.totalHits > ConfiguredMax(l)
                     /\ c2.admitted = c.admitted]_vars

\* a key's 6th login in one window was denied and counted
C15_Witness ==
    /\ limits["login"]["ip1"].totalHits = 6
    /\ limits["login"]["ip1"].denied = 1
    /\ limits["login"]["ip1"].admitted = 5
    /\ now < limits["login"]["ip1"].resetTime

\* C16: every admitted, well-formed login whose SELECT has returned goes on
\* to one bcrypt comparison before it is answered, whether or not the SELECT
\* found a record.
C16_CompareAfterEverySelect ==
    [][\A s \in Slots :
         (req[s].kind = "login" /\ req[s].pc = "select" /\ req'[s] # req[s]) =>
            req'[s].pc = "compare"]_vars

\* the texts the handlers and limiters send: none is built from a request
FixedMessages ==
    {MsgUsernameLength, MsgUsernameChars, MsgPasswordLength, MsgPasswordChars,
     "Username and password required", "Invalid credentials",
     "Username already exists", "Registration failed", "Login failed",
     "Server configuration error", "No token provided", "Invalid token",
     "Failed to fetch profile", "User not found",
     MsgLoginLimited, MsgRegisterLimited, MsgGeneralLimited}

\* a response body that is a fixed text
FixedText(b) ==
    \/ DOMAIN b = {"error"} /\ b.error \in FixedMessages
    \/ DOMAIN b = {"text"} /\ b.text \in FixedMessages

\* the fields of a token's payload and signature
TokenFields == {"form", "userId", "username", "iat", "exp", "sig"}

\* C17: every answer of register, login, verify and profile is either a
\* fixed text or a success body with no password and no hash in it: register
\* 201 carries the message and the userId, login 200 the token (identity and
\* times), userId and username, verify 200 valid, userId and username, and
\* profile 200 id, username and created_at.
C17_NoPasswordInResponses ==
    \A s \in Slots :
        LET r == req[s] IN
        (r.pc = "done" /\ r.kind \in {"register", "login", "verify", "profile"})
        => \/ FixedText(r.body)
           \/ /\ r.kind = "register" /\ r.status = 201
              /\ DOMAIN r.body = {"message", "userId"}
              /\ r.body.message = "User registered successfully"
              /\ r.body.userId \in 1..Len(users)
           \/ /\ r.kind = "login" /\ r.status = 200
              /\ DOMAIN r.body = {"token", "userId", "username"}
              /\ DOMAIN r.body.token = TokenFields
              /\ r.body.token.username = r.body.username
              /\ r.body.username = Trim(r.sent)
           \/ /\ r.kind = "verify" /\ r.status = 200
              /\ DOMAIN r.body = {"valid", "userId", "username"}
           \/ /\ r.kind = "profile" /\ r.status = 200
              /\ DOMAIN r.body \subseteq {"id", "username", "created_at"}

\* the profile of a registered user, whose record holds a hash, was returned
C17_Witness ==
    /\ Answered(req[1], "profile") /\ req[1].status = 200
    /\ \E i \in 1..Len(users) :
          /\ users[i].id = req[1].body.id
          /\ users[i].password = BcryptHash(GoodPass)

\* C18: every step keeps every record of the users table, with its id,
\* username and hash, at its place; the only change a step makes to the
\* table is one new record at its end, made by a registration that is
\* answered 201 in that step.
C18_RecordsOnlyAdded ==
    [][/\ Len(users') >= Len(users)
       /\ \A i \in 1..Len(users) : users'[i] = users[i]
       /\ users' # users =>
             /\ Len(users') = Len(users) + 1
             /\ \E s \in Slots :
                   /\ req[s].kind = "register" /\ req[s].pc = "insert"
                   /\ req'[s].pc = "done" /\ req'[s].status = 201
                   /\ users'[Len(users')].username = req[s].username]_vars

\* with two users registered, a login, a verify or a profile request of the
\* first one has been answered 200
C18_Witness ==
    /\ Len(users) = 2
    /\ req[1].pc = "done" /\ req[1].status = 200
    /\ req[1].kind \in {"login", "verify", "profile"}

\* the criteria of the policy that password p does not meet
MissingCriteria(p) ==
    {c \in {"length", "lowercase", "uppercase", "digit", "symbol"} :
        \/ c = "length"    /\ Len(p) < 12
        \/ c = "lowercase" /\ ~HasOneOf(p, Lower)
        \/ c = "uppercase" /\ ~HasOneOf(p, Upper)
        \/ c = "digit"     /\ ~HasOneOf(p, Digit)
        \/ c = "symbol"    /\ ~HasOneOf(p, ServerSymbols)}

\* the criteria a 400 body speaks of, counting the one text about character
\* kinds as naming all four of them
NamedCriteria(b) ==
    IF b = ErrorBody(MsgPasswordLength) THEN {"length"}
    ELSE IF b = ErrorBody(MsgPasswordChars)
    THEN {"lowercase", "uppercase", "digit", "symbol"}
    ELSE {}

\* C19: the 400 answer to a registration with a well-shaped username and a
\* password outside the policy names every criterion the password misses.
C19_MissingCriteriaEnumerated ==
    \A s \in Slots :
        (/\ Answered(req[s], "register") /\ req[s].status = 400
         /\ validateUsername(req[s].sent) = <<>>)
        => MissingCriteria(req[s].password) \subseteq NamedCriteria(req[s].body)

\* C20: for every password of a register request, the register form marks
\* it isValid exactly when the server's password validation accepts it.
C20_ClientAndServerAgree ==
    \A s \in Slots :
        req[s].kind = "register" =>
            (ClientValidatePassword(req[s].password).isValid
                <=> validatePassword(req[s].password) = <<>>)

\* the form's names of the criteria that password p does not meet, the
\* symbols being those the form lists
MissingNames(p) ==
    {n \in {"at least 12 characters", "lowercase letter", "uppercase letter",
            "number", "special character (@$!%*?&#)"} :
        \/ n = "at least 12 characters" /\ Len(p) < 12
        \/ n = "lowercase letter" /\ ~HasOneOf(p, Lower)
        \/ n = "uppercase letter" /\ ~HasOneOf(p, Upper)
        \/ n = "number" /\ ~HasOneOf(p, Digit)
        \/ n = "special character (@$!%*?&#)"
              /\ ~HasOneOf(p, {"@", "$", "!", "%", "*", "?", "&", "#"})}

\* the pieces of a text
Pieces(text) == {text[i] : i \in 1..Len(text)}

\* C21: for the password in the form's field, validatePassword returns as
\* score the number of the five criteria it meets, isValid exactly when the
\* score is 5, and a feedback that names the criteria it misses and no
\* other.
C21_ScoreCountsCriteria ==
    LET p == form.formData.password
        r == ClientValidatePassword(p)
    IN /\ r.score = 5 - Cardinality(MissingNames(p))
       /\ r.isValid <=> r.score = 5
       /\ \A n \in {"at least 12 characters", "lowercase letter",
                    "uppercase letter", "number",
                    "special character (@$!%*?&#)"} :
             n \in Pieces(r.feedback) <=> n \in MissingNames(p)

\* a password with four of the five criteria (no digit) was typed and scored
C21_Witness ==
    /\ form.formData.password = NoDigitPass
    /\ form.passwordStrength.score = 4
    /\ form.passwordStrength.isValid = FALSE
    /\ form.passwordStrength.feedback = <<"Missing: ", "number">>

\* C22: at most 10 queries run at once, and the queue of the queries that
\* wait for a connection stays below a fixed depth (the depth explored),
\* however many queries are issued.
C22_QueueBounded ==
    /\ InUse(pool) <= 10
    /\ Len(pool.queue) < MaxWaiting

\* the texts of the catch blocks and of the error middleware
GenericFailures ==
    {"Registration failed", "Login failed", "Failed to fetch profile",
     "Server configuration error", "Internal server error"}

\* C23 as claimed: every 500 answer is a generic text and nothing else,
\* whatever NODE_ENV is.
C23_FailuresGeneric ==
    \A s \in Slots :
        (req[s].pc = "done" /\ req[s].status = 500)
        => /\ DOMAIN req[s].body = {"error"}
           /\ req[s].body.error \in GenericFailures

\* C23 amended: a request whose query the store rejects is answered 500 with
\* the handler's generic text and nothing else, whatever NODE_ENV is; a
\* request whose error reaches the error middleware is answered 500
\* {error: 'Internal server error'}, alone when NODE_ENV is 'production' and
\* with the error's message as details otherwise.
C23_DetailsOutsideProduction ==
    \A s \in Slots :
        (req[s].pc = "done" /\ req[s].status = 500)
        => IF req[s].kind = "unparsable"
           THEN /\ req[s].body.error = "Internal server error"
                /\ nodeEnv = <<"production">> => DOMAIN req[s].body = {"error"}
                /\ nodeEnv # <<"production">> =>
                      /\ DOMAIN req[s].body = {"error", "details"}
                      /\ req[s].body.details = "Unexpected end of JSON input"
           ELSE /\ DOMAIN req[s].body = {"error"}
                /\ req[s].body.error \in GenericFailures

\* with NODE_ENV unset, a request with an unparsable body was answered 500
\* with the parser's message in details
C23_Witness ==
    /\ nodeEnv = <<>>
    /\ Answered(req[1], "unparsable") /\ req[1].status = 500
    /\ "details" \in DOMAIN req[1].body

\* C24: whatever requests were served since a token was issued and
\* whatever other tokens were issued, a verify of an issued token is
\* answered 200 valid: true exactly when the token has not expired.
C24_ValidUntilOwnExpiry ==
    \A s \in Slots :
        (Answered(req[s], "verify") /\ Let(req[s]) /\ req[s].token \in issued)
        => (req[s].status = 200 <=> req[s].at < 1000 * req[s].token.exp)

\* a user's older token was verified 200 after a newer token had been issued
\* to the same user by a later login
C24_Witness ==
    /\ Answered(req[1], "verify") /\ req[1].status = 200
    /\ \E newer \in issued :
          /\ newer.userId = req[1].token.userId
          /\ newer.iat > req[1].token.iat
          /\ req[1].at >= 1000 * newer.iat

\* C25: with the secret set, a profile request that presents a malformed,
\* wrongly signed or expired token is answered 401 {error: 'Invalid token'}
\* as verify answers it, and a profile is returned only for a token that
\* verifies and whose record exists.
C25_ProfileBadToken401 ==
    \A s \in Slots :
        (Answered(req[s], "profile") /\ Let(req[s]) /\ ~UnsetOrEmpty)
        => /\ BadToken(req[s].token, req[s].at) =>
                 /\ req[s].status = 401
                 /\ req[s].body = ErrorBody("Invalid token")
           /\ req[s].status = 200 =>
                 /\ req[s].token.form = "jwt"
                 /\ ~BadToken(req[s].token, req[s].at)
                 /\ \E i \in 1..Len(users) : users[i].id = req[s].token.userId

\* C26: with the signing secret unset or empty, an admitted well-formed
\* login with an unknown username or a wrong password is answered 401
\* {error: 'Invalid credentials'}, and a login is answered 500 only when its
\* credentials are right, with {error: 'Server configuration error'}.
C26_CredentialsBeforeSecret ==
    UnsetOrEmpty =>
    \A s \in Slots :
        LET r == req[s] IN
        (Answered(r, "login") /\ Let(r) /\ LoginInputOk(r.sent, r.password))
        => /\ (UnknownUser(r) \/ WrongPassword(r)) =>
                 /\ r.status = 401
                 /\ r.body = ErrorBody("Invalid credentials")
           /\ r.status = 500 =>
                 /\ RightCredentials(r)
                 /\ r.body = ErrorBody("Server configuration error")

\* with the secret unset, a login with a registered username and a wrong
\* password was answered 401
C26_Witness ==
    /\ secret = NoSecret
    /\ Answered(req[1], "login") /\ WrongPassword(req[1])
    /\ req[1].status = 401

\* C27: every request that reaches the login route is counted in its key's
\* login window before its body is looked at: the count grows by one whether
\* the request is then answered 400, goes on to the lookup, or is denied;
\* once 5 were counted in the window the request is denied, right
\* credentials or not.
C27_EveryLoginCounted ==
    [][\A s \in Slots :
         (req[s].pc = "route" /\ req[s].kind = "login" /\ req'[s] # req[s]) =>
            LET c  == LoginClient(limits, req[s])
                c2 == LoginClient(limits', req[s])
            IN /\ now < c.resetTime => c2.totalHits = c.totalHits + 1
               /\ now >= c.resetTime => c2.totalHits = 1
               /\ (now < c.resetTime /\ c.totalHits >= 5) => req'[s].status = 429
               /\ req'[s].status = 400 => c2.admitted = c.admitted + 1]_vars

\* the key's 6th login in the window, with the right password of a
\* registered user, was answered 429 after 5 were let through
C27_Witness ==
    /\ Answered(req[1], "login") /\ RightCredentials(req[1])
    /\ req[1].status = 429
    /\ req[1].body = TextBody(MsgLoginLimited)
    /\ LoginClient(limits, req[1]).totalHits = 6
    /\ LoginClient(limits, req[1]).admitted = 5
    /\ issued # {}

\* how strong a label is: its place in strengthLabels
Rank(label) == CHOOSE i \in 1..Len(strengthLabels) : strengthLabels[i] = label

\* C28: the label shown for the password field is monotone in the score: a
\* password with all five criteria is labelled 'Strong', and no password
\* with a higher score is labelled weaker than the one in the field.
C28_LabelMonotone ==
    LET shown == form.passwordStrength IN
    "label" \in DOMAIN shown =>
        /\ shown.score = 5 => shown.label = "Strong"
        /\ \A q \in FormPasswords :
              LET other == ClientValidatePassword(q) IN
              other.score > shown.score => Rank(other.label) >= Rank(shown.label)

\* C29 as stated: passwordStrength equals validatePassword of the password
\* field in every state of the form.
C29_StrengthAlwaysValidated ==
    form.passwordStrength = ClientValidatePassword(form.formData.password)

\* C29: once the password field was edited, passwordStrength equals
\* validatePassword of the password field; before that it is the mounted
\* value, with the score of the empty password and no isValid.  A submit
\* starts a POST only when the username has 3..30 allowed characters, the
\* password equals confirmPassword and the password is valid, and the POST
\* carries that username and password.
C29_StrengthTracksPassword ==
    /\ [](LET shown == form.passwordStrength
              pw    == form.formData.password
          IN /\ "isValid" \in DOMAIN shown => shown = ClientValidatePassword(pw)
             /\ "isValid" \notin DOMAIN shown =>
                    /\ pw = <<>>
                    /\ shown = InitialForm.passwordStrength
             /\ shown.score = ClientValidatePassword(pw).score)
    /\ [][(form.posting = <<>> /\ form'.posting # <<>>) =>
            LET f == form.formData IN
            /\ Len(f.username) \in 3..30
            /\ \A i \in 1..Len(f.username) :
                   f.username[i] \in Lower \cup Upper \cup Digit \cup {"_", "-"}
            /\ f.password = f.confirmPassword
            /\ ClientValidatePassword(f.password).score = 5
            /\ form'.posting = <<[username |-> f.username,
                                  password |-> f.password]>>]_vars

\* a POST is awaited for a form whose password meets all five criteria
C29_Witness ==
    /\ form.posting # <<>>
    /\ form.loading
    /\ form.posting[1].password = form.formData.password
    /\ form.formData.password = form.formData.confirmPassword
    /\ Truthy(form.passwordStrength, "isValid")

\* C30: from every starting schema the script runs to its last statement
\* without an error, and a statement that adds a column AFTER another one
\* is run only when that other column exists.
C30_MigrationRunsThrough ==
    /\ mig.errors = {}
    /\ mig.state # "aborted"
    /\ (mig.state = "running" /\ mig.pc <= Len(Script)) =>
          LET st == Script[mig.pc] IN
          (st.op = "add" /\ Runs(st, mig.schema)) =>
              st.after[1] \in mig.schema.columns[st.table]

============================================================================
